---------------------------- MODULE Spec2Model ----------------------------
(***************************************************************************)
(* Model of minesweeper.py: the Minesweeper board, the Sentence class and  *)
(* the MinesweeperAI inference engine.                                     *)
(*                                                                         *)
(* Sentences are Python objects that are mutated in place and shared       *)
(* between self.knowledge and its shallow copy `test`, so the model keeps  *)
(* a heap of sentence objects (heap[id] = [cells, count]) and the lists    *)
(* hold object ids.  Equality of two list elements is Python's             *)
(* "identical or __eq__".  The for-loops over self.knowledge are list      *)
(* iterators: an index that is compared with the current length of the     *)
(* list at every step, while the list is appended to and removed from.     *)
(***************************************************************************)
EXTENDS Integers, Sequences, FiniteSets, TLC

VARIABLES
    height,      \* MinesweeperAI.height (and Minesweeper.height)
    width,       \* MinesweeperAI.width (and Minesweeper.width)
    board,       \* Minesweeper.mines: the cells that hold a mine
    moves_made,  \* MinesweeperAI.moves_made
    safes,       \* MinesweeperAI.safes
    mines,       \* MinesweeperAI.mines
    knowledge,   \* MinesweeperAI.knowledge: list of sentence object ids
    heap,        \* the Sentence objects: id -> [cells, count]
    random,      \* MinesweeperAI.random (set by make_random_move)
    test,        \* add_knowledge: local `test` (shallow copy of knowledge)
    pc,          \* position inside add_knowledge, "idle" between calls
    it1,         \* index of the iterator of the loop at 246 / 262
    it2,         \* index of the iterator of the loop at 263
    s1,          \* add_knowledge: local `sentence1` (object id)
    calls,       \* number of mutating calls made so far
    last         \* the last call and what it returned

vars == <<height, width, board, moves_made, safes, mines, knowledge, heap, random,
          test, pc, it1, it2, s1, calls, last>>

(***************************************************************************)
(* Bounds                                                                  *)
(***************************************************************************)
Height == 2       \* rows of the board
Width == 3        \* columns of the board
BigHeight == 3    \* rows of the larger board (SpecBig)
BigWidth == 3     \* columns of the larger board (SpecBig)
MaxBigCalls == 3  \* add_knowledge calls on the larger board (SpecBig)
MaxSentenceCalls == 2  \* calls made on one Sentence (SpecSentence)
MaxCalls == 4     \* add_knowledge calls of a truthful driver (Spec)
MaxApiCalls == 3  \* mutating calls of an arbitrary driver (SpecAPI, SpecSteps)
MaxCount == 3     \* largest count an arbitrary driver passes

Cells == (0..(height - 1)) \X (0..(width - 1))

None == <<>>
Some(v) == <<v>>

(***************************************************************************)
(* Minesweeper                                                             *)
(***************************************************************************)
\* range(cell[0] - 1, cell[0] + 1): the row below is never visited
Neighbours_off(cell) ==
    {c \in ((cell[1] - 1)..cell[1]) \X ((cell[2] - 1)..(cell[2] + 1)) :
        /\ c # cell
        /\ 0 <= c[1] /\ c[1] < height
        /\ 0 <= c[2] /\ c[2] < width}

\* the cells within one row and column of `cell`, in bounds, not itself
Neighbours(cell) ==
    {c \in ((cell[1] - 1)..(cell[1] + 1)) \X ((cell[2] - 1)..(cell[2] + 1)) :
        /\ c # cell
        /\ 0 <= c[1] /\ c[1] < height
        /\ 0 <= c[2] /\ c[2] < width}

is_mine(cell) == cell \in board

nearby_mines(cell) == Cardinality({c \in Neighbours(cell) : c \in board})

(***************************************************************************)
(* Sentence                                                                *)
(***************************************************************************)
Sentence(cells, count) == [cells |-> cells, count |-> count]

\* Sentence.__eq__
SentenceEq(a, b) == a.cells = b.cells /\ a.count = b.count

\* a Python value used as a condition: None and the empty set are false
Truthy(r) == r # None /\ r[1] # {}

\* count compared with len(cells) - 1
known_mines_off(s) ==
    IF s.cells # {} /\ s.count >= Cardinality(s.cells) - 1
    THEN Some(s.cells) ELSE None

known_mines(s) ==
    IF s.cells # {} /\ s.count = Cardinality(s.cells)
    THEN Some(s.cells) ELSE None

\* count compared with <= 1 instead of == 0
known_safes_off(s) ==
    IF s.count <= 1 /\ s.cells # {} THEN Some(s.cells) ELSE None

known_safes(s) ==
    IF s.count = 0 /\ s.cells # {} THEN Some(s.cells) ELSE None

\* the count is decremented whether or not the cell is present
Sentence_mark_mine_always(s, cell) ==
    [cells |-> s.cells \ {cell}, count |-> s.count - 1]

Sentence_mark_mine(s, cell) ==
    IF cell \in s.cells
    THEN [cells |-> s.cells \ {cell}, count |-> s.count - 1]
    ELSE s

\* the count is decremented as for a mine
Sentence_mark_safe_dec(s, cell) ==
    IF cell \in s.cells
    THEN [cells |-> s.cells \ {cell}, count |-> s.count - 1]
    ELSE s

Sentence_mark_safe(s, cell) ==
    IF cell \in s.cells
    THEN [cells |-> s.cells \ {cell}, count |-> s.count]
    ELSE s

(***************************************************************************)
(* MinesweeperAI.  The engine and the frame of a running add_knowledge are *)
(* handled as one record e, so that every step is a function on records.   *)
(***************************************************************************)
Cur == [moves_made |-> moves_made, safes |-> safes, mines |-> mines,
        knowledge |-> knowledge, heap |-> heap, test |-> test, pc |-> pc,
        it1 |-> it1, it2 |-> it2, s1 |-> s1]

Install(e) ==
    /\ moves_made' = e.moves_made
    /\ safes' = e.safes
    /\ mines' = e.mines
    /\ knowledge' = e.knowledge
    /\ heap' = e.heap
    /\ test' = e.test
    /\ pc' = e.pc
    /\ it1' = e.it1
    /\ it2' = e.it2
    /\ s1' = e.s1

\* the objects self.knowledge holds
InList(e) == {e.knowledge[k] : k \in 1..Len(e.knowledge)}

\* a cell marked as a mine is withdrawn from safes
mark_mine_exclusive(e, cell) ==
    [e EXCEPT !.mines = @ \cup {cell},
              !.safes = @ \ {cell},
              !.heap = [id \in DOMAIN e.heap |->
                          IF id \in InList(e)
                          THEN Sentence_mark_mine(e.heap[id], cell)
                          ELSE e.heap[id]]]

mark_mine(e, cell) ==
    [e EXCEPT !.mines = @ \cup {cell},
              !.heap = [id \in DOMAIN e.heap |->
                          IF id \in InList(e)
                          THEN Sentence_mark_mine(e.heap[id], cell)
                          ELSE e.heap[id]]]

\* only the first sentence of the list is updated
mark_safe_first(e, cell) ==
    [e EXCEPT !.safes = @ \cup {cell},
              !.heap = [id \in DOMAIN e.heap |->
                          IF e.knowledge # <<>> /\ id = e.knowledge[1]
                          THEN Sentence_mark_safe(e.heap[id], cell)
                          ELSE e.heap[id]]]

\* the cell is recorded but the sentences are not updated
mark_safe_nocascade(e, cell) == [e EXCEPT !.safes = @ \cup {cell}]

mark_safe(e, cell) ==
    [e EXCEPT !.safes = @ \cup {cell},
              !.heap = [id \in DOMAIN e.heap |->
                          IF id \in InList(e)
                          THEN Sentence_mark_safe(e.heap[id], cell)
                          ELSE e.heap[id]]]

\* for cell in <set>.copy(): self.mark_safe(cell)
RECURSIVE MarkAllSafe(_, _)
MarkAllSafe(e, S) ==
    IF S = {} THEN e
    ELSE LET c == CHOOSE x \in S : TRUE
         IN MarkAllSafe(mark_safe(e, c), S \ {c})

\* for cell in <set>.copy(): self.mark_mine(cell)
RECURSIVE MarkAllMines(_, _)
MarkAllMines(e, S) ==
    IF S = {} THEN e
    ELSE LET c == CHOOSE x \in S : TRUE
         IN MarkAllMines(mark_mine(e, c), S \ {c})

\* list element comparison: identical, or equal by Sentence.__eq__
ElemEq(e, x, y) == x = y \/ SentenceEq(e.heap[x], e.heap[y])

\* list == list
ListEq(e, l1, l2) ==
    /\ Len(l1) = Len(l2)
    /\ \A k \in 1..Len(l1) : ElemEq(e, l1[k], l2[k])

\* positions of the elements list.remove(x) may remove
Matches(e, x) == {k \in 1..Len(e.knowledge) : ElemEq(e, e.knowledge[k], x)}

\* self.knowledge.remove(x): drops the first matching element, raises
\* ValueError when there is none
list_remove(e, x) ==
    IF Matches(e, x) = {} THEN [e EXCEPT !.pc = "ValueError"]
    ELSE LET p == CHOOSE k \in Matches(e, x) : \A m \in Matches(e, x) : k <= m
         IN [e EXCEPT !.knowledge =
                SubSeq(e.knowledge, 1, p - 1)
                    \o SubSeq(e.knowledge, p + 1, Len(e.knowledge))]

\* self.knowledge.append(Sentence(cells, count))
list_append(e, cells, count) ==
    [e EXCEPT !.heap = Append(e.heap, Sentence(cells, count)),
              !.knowledge = Append(e.knowledge, Len(e.heap) + 1)]

\* a neighbour known to be a mine is left out without decreasing count
add_knowledge_begin_nodec(e, cell, count) ==
    LET e1 == [e EXCEPT !.moves_made = @ \cup {cell}]
        e2 == mark_safe(e1, cell)
        near_by == {c \in Neighbours(cell) :
                      /\ c \notin e2.moves_made /\ c \notin e2.safes
                      /\ c \notin e2.mines}
    IN [list_append(e2, near_by, count) EXCEPT !.pc = "while"]

\* add_knowledge, 207-236: record the move, mark the cell safe, build the
\* new sentence from the unresolved neighbours and append it
add_knowledge_begin(e, cell, count) ==
    LET e1 == [e EXCEPT !.moves_made = @ \cup {cell}]
        e2 == mark_safe(e1, cell)
        cand == {c \in Neighbours(cell) :
                    c \notin e2.moves_made /\ c \notin e2.safes}
        near_by == {c \in cand : c \notin e2.mines}
        cnt == count - Cardinality({c \in cand : c \in e2.mines})
    IN [list_append(e2, near_by, cnt) EXCEPT !.pc = "while"]

\* 242: test = self.knowledge.copy(), and the iterator of the loop at 246
step_while(e) == [e EXCEPT !.test = e.knowledge, !.it1 = 1, !.pc = "mark"]

\* 246-256: one iteration of `for sentence in self.knowledge`; when the
\* iterator is exhausted, 260: enter the pairwise loops or skip them
step_mark(e) ==
    IF e.it1 <= Len(e.knowledge)
    THEN LET x == e.knowledge[e.it1]
             ks == known_safes(e.heap[x])
             ea == IF Truthy(ks) THEN MarkAllSafe(e, ks[1]) ELSE e
             km == known_mines(ea.heap[x])
             eb == IF Truthy(km) THEN MarkAllMines(ea, km[1]) ELSE ea
         IN [eb EXCEPT !.it1 = @ + 1]
    ELSE IF Len(e.knowledge) >= 2
         THEN [e EXCEPT !.it1 = 1, !.pc = "outer"]
         ELSE [e EXCEPT !.pc = "prune"]

\* 262: `for sentence1 in self.knowledge`
step_outer(e) ==
    IF e.it1 <= Len(e.knowledge)
    THEN [e EXCEPT !.s1 = e.knowledge[e.it1], !.it1 = @ + 1, !.it2 = 1,
                   !.pc = "inner"]
    ELSE [e EXCEPT !.pc = "prune"]

\* the derived sentence keeps the count of the larger sentence
step_inner_keepcount(e) ==
    IF e.it2 <= Len(e.knowledge)
    THEN LET s2 == e.knowledge[e.it2]
             a == e.heap[e.s1]
             b == e.heap[s2]
             e1 == [e EXCEPT !.it2 = @ + 1]
         IN IF SentenceEq(a, b) \/ Cardinality(a.cells) = 0
                \/ Cardinality(b.cells) = 0
            THEN e1
            ELSE IF a.cells \subseteq b.cells
                    /\ Cardinality(a.cells) # Cardinality(b.cells)
                 THEN list_remove(
                        list_append(e1, b.cells \ a.cells, b.count),
                        s2)
                 ELSE e1
    ELSE [e EXCEPT !.pc = "outer"]

\* 263-277: one iteration of `for sentence2 in self.knowledge`
step_inner(e) ==
    IF e.it2 <= Len(e.knowledge)
    THEN LET s2 == e.knowledge[e.it2]
             a == e.heap[e.s1]
             b == e.heap[s2]
             e1 == [e EXCEPT !.it2 = @ + 1]
         IN IF SentenceEq(a, b) \/ Cardinality(a.cells) = 0
                \/ Cardinality(b.cells) = 0
            THEN e1
            ELSE IF a.cells \subseteq b.cells
                    /\ Cardinality(a.cells) # Cardinality(b.cells)
                 THEN list_remove(
                        list_append(e1, b.cells \ a.cells, b.count - a.count),
                        s2)
                 ELSE e1
    ELSE [e EXCEPT !.pc = "outer"]

\* empty sentences are left in the list
RemoveEmpty_keep(e, copy) == e

\* 280-282: for sentence in self.knowledge.copy(): remove it when empty
RECURSIVE RemoveEmpty(_, _)
RemoveEmpty(e, copy) ==
    IF copy = <<>> \/ e.pc = "ValueError" THEN e
    ELSE IF Cardinality(e.heap[Head(copy)].cells) = 0
         THEN RemoveEmpty(list_remove(e, Head(copy)), Tail(copy))
         ELSE RemoveEmpty(e, Tail(copy))

\* add_knowledge returns: its locals are gone, and so is every sentence
\* that self.knowledge no longer holds; the remaining objects are renamed
\* 1..n in list order (an object's id is not observable)
Return(e) ==
    [e EXCEPT !.heap = [k \in 1..Len(e.knowledge) |-> e.heap[e.knowledge[k]]],
              !.knowledge = [k \in 1..Len(e.knowledge) |-> k],
              !.test = <<>>, !.it1 = 0, !.it2 = 0, !.s1 = 0, !.pc = "idle"]

\* `is` instead of `==`: a list is never its own copy
loop_exit_is(e) == FALSE

\* the loop is left after its first pass
loop_exit_always(e) == TRUE

\* 285: if self.knowledge == test: break
loop_exit(e) == ListEq(e, e.knowledge, e.test)

\* 280-286
step_prune(e) ==
    LET e1 == RemoveEmpty(e, e.knowledge)
    IN IF e1.pc = "ValueError" THEN e1
       ELSE IF loop_exit(e1) THEN Return(e1)
       ELSE [e1 EXCEPT !.pc = "while"]

\* one step of the body of add_knowledge's `while True`
Step(e) ==
    CASE e.pc = "while" -> step_while(e)
      [] e.pc = "mark" -> step_mark(e)
      [] e.pc = "outer" -> step_outer(e)
      [] e.pc = "inner" -> step_inner(e)
      [] e.pc = "prune" -> step_prune(e)

Running(e) == e.pc \notin {"idle", "ValueError"}

\* the loop at 239-286 run until add_knowledge returns (or raises)
RECURSIVE Run(_)
Run(e) == IF Running(e) THEN Run(Step(e)) ELSE e

\* 242-286 from a state in which a pass is under way to the end of the pass
RECURSIVE PassFrom(_)
PassFrom(e) ==
    IF e.pc \in {"while", "idle", "ValueError"} THEN e
    ELSE PassFrom(Step(e))

\* one pass of the loop body, 242-286, on the engine e
OnePass(e) == PassFrom(Step([e EXCEPT !.pc = "while"]))

\* add_knowledge(cell, count), 192-286
add_knowledge(e, cell, count) == Run(add_knowledge_begin(e, cell, count))

\* any safe cell, whether or not it was already played
make_safe_move_results_any ==
    IF safes # {} THEN {Some(c) : c \in safes} ELSE {None}

\* make_safe_move, 288-305: the values it can return
make_safe_move_results ==
    IF safes # {}
    THEN IF \E c \in safes : c \notin moves_made
         THEN {Some(c) : c \in {d \in safes : d \notin moves_made}}
         ELSE {None}
    ELSE {None}

\* known mines are not excluded
random_candidates_nomines == {c \in Cells : c \notin moves_made}

\* make_random_move, 315-321: the set self.random it builds
random_candidates ==
    {c \in Cells : c \notin moves_made /\ c \notin mines}

\* make_random_move, 324-327: the values it can return
make_random_move_results ==
    IF random_candidates # {}
    THEN {Some(c) : c \in random_candidates}
    ELSE {None}

(***************************************************************************)
(* State machine                                                           *)
(***************************************************************************)
\* the sentences self.knowledge holds, in list order
Sentences == [k \in 1..Len(knowledge) |-> heap[knowledge[k]]]

\* what the engine knows, as the caller can observe it
Snapshot == [moves_made |-> moves_made, safes |-> safes, mines |-> mines,
             sentences |-> Sentences]

\* a call: the operation, its arguments, the value it returned and the
\* engine as it was when the call was made
Call(op, cell, count, result) ==
    [op |-> op, cell |-> cell, count |-> count, result |-> result,
     before |-> Snapshot]

\* the engine just constructed on an h x w board
Start(h, w) ==
    /\ height = h
    /\ width = w
    /\ board \in SUBSET ((0..(h - 1)) \X (0..(w - 1)))
    /\ moves_made = {}
    /\ safes = {}
    /\ mines = {}
    /\ knowledge = <<>>
    /\ heap = <<>>
    /\ random = {}
    /\ test = <<>>
    /\ pc = "idle"
    /\ it1 = 0
    /\ it2 = 0
    /\ s1 = 0
    /\ calls = 0
    /\ last = Call("init", <<>>, 0, None)

Init == Start(Height, Width)

\* the driver reveals a cell that is not a mine and reports the board's
\* count to the engine
Reveal(cell) ==
    /\ pc = "idle"
    /\ ~is_mine(cell)
    /\ \E e \in {add_knowledge(Cur, cell, nearby_mines(cell))} : Install(e)
    /\ calls' = calls + 1
    /\ last' = Call("add_knowledge", cell, nearby_mines(cell), None)
    /\ UNCHANGED <<height, width, board, random>>

AddKnowledge(cell) == calls < MaxCalls /\ Reveal(cell)

MakeSafeMove ==
    /\ pc = "idle"
    /\ \E r \in make_safe_move_results :
          last' = Call("make_safe_move", <<>>, 0, r)
    /\ UNCHANGED <<height, width, board, moves_made, safes, mines, knowledge, heap, random,
                   test, pc, it1, it2, s1, calls>>

\* the move returned is recorded as made
MakeRandomMove_records ==
    /\ pc = "idle"
    /\ random' = random_candidates
    /\ \E r \in make_random_move_results :
          /\ last' = Call("make_random_move", <<>>, 0, r)
          /\ moves_made' = IF r = None THEN moves_made
                           ELSE moves_made \cup {r[1]}
    /\ UNCHANGED <<height, width, board, safes, mines, knowledge, heap,
                   test, pc, it1, it2, s1, calls>>

MakeRandomMove ==
    /\ pc = "idle"
    /\ random' = random_candidates
    /\ \E r \in make_random_move_results :
          last' = Call("make_random_move", <<>>, 0, r)
    /\ UNCHANGED <<height, width, board, moves_made, safes, mines, knowledge, heap,
                   test, pc, it1, it2, s1, calls>>

Next ==
    \/ \E cell \in Cells : AddKnowledge(cell)
    \/ MakeSafeMove
    \/ MakeRandomMove

Spec == Init /\ [][Next]_vars

(***************************************************************************)
(* The truthful driver on the larger board.                                *)
(***************************************************************************)
InitBig == Start(BigHeight, BigWidth)

AddKnowledgeBig(cell) == calls < MaxBigCalls /\ Reveal(cell)

NextBig == \E cell \in Cells : AddKnowledgeBig(cell)

SpecBig == InitBig /\ [][NextBig]_vars

(***************************************************************************)
(* The engine driven through its whole public interface, with any cell and *)
(* any count: no game is attached, nothing the driver says need be true.   *)
(***************************************************************************)
InitEngine == Init /\ board = {}

AddKnowledgeAny(cell, count) ==
    /\ pc = "idle"
    /\ calls < MaxApiCalls
    /\ \E e \in {add_knowledge(Cur, cell, count)} : Install(e)
    /\ calls' = calls + 1
    /\ last' = Call("add_knowledge", cell, count, None)
    /\ UNCHANGED <<height, width, board, random>>

MarkMine(cell) ==
    /\ pc = "idle"
    /\ calls < MaxApiCalls
    /\ \E e \in {mark_mine(Cur, cell)} : Install(e)
    /\ calls' = calls + 1
    /\ last' = Call("mark_mine", cell, 0, None)
    /\ UNCHANGED <<height, width, board, random>>

MarkSafe(cell) ==
    /\ pc = "idle"
    /\ calls < MaxApiCalls
    /\ \E e \in {mark_safe(Cur, cell)} : Install(e)
    /\ calls' = calls + 1
    /\ last' = Call("mark_safe", cell, 0, None)
    /\ UNCHANGED <<height, width, board, random>>

NextAPI ==
    \/ \E cell \in Cells, count \in 0..MaxCount : AddKnowledgeAny(cell, count)
    \/ \E cell \in Cells : MarkMine(cell)
    \/ \E cell \in Cells : MarkSafe(cell)
    \/ MakeSafeMove
    \/ MakeRandomMove

SpecAPI == InitEngine /\ [][NextAPI]_vars

(***************************************************************************)
(* The same engine with add_knowledge taken one loop iteration at a time.  *)
(* The code is sequential and never waits, so a running call always takes  *)
(* its next step.                                                          *)
(***************************************************************************)
Enter(cell, count) ==
    /\ pc = "idle"
    /\ calls < MaxApiCalls
    /\ \E e \in {add_knowledge_begin(Cur, cell, count)} : Install(e)
    /\ calls' = calls + 1
    /\ last' = Call("add_knowledge", cell, count, None)
    /\ UNCHANGED <<height, width, board, random>>

DoStep ==
    /\ Running(Cur)
    /\ \E e \in {Step(Cur)} : Install(e)
    /\ UNCHANGED <<height, width, board, random, calls, last>>

NextSteps ==
    \/ \E cell \in Cells, count \in 0..MaxCount : Enter(cell, count)
    \/ DoStep
    \/ \E cell \in Cells : MarkMine(cell)
    \/ \E cell \in Cells : MarkSafe(cell)

SpecSteps == InitEngine /\ [][NextSteps]_vars /\ WF_vars(DoStep)

(***************************************************************************)
(* One Sentence on its own: Sentence(cells, count) for any cell set and    *)
(* count, held as the only object of the heap, next to a mine layout the   *)
(* sentence may or may not be true of.                                     *)
(***************************************************************************)
InitSentence ==
    /\ height = Height
    /\ width = Width
    /\ board \in SUBSET ((0..(Height - 1)) \X (0..(Width - 1)))
    /\ moves_made = {}
    /\ safes = {}
    /\ mines = {}
    /\ \E cells \in SUBSET ((0..(Height - 1)) \X (0..(Width - 1))),
          count \in 0..MaxCount :
          heap = <<Sentence(cells, count)>>
    /\ knowledge = <<1>>
    /\ random = {}
    /\ test = <<>>
    /\ pc = "idle"
    /\ it1 = 0
    /\ it2 = 0
    /\ s1 = 0
    /\ calls = 0
    /\ last = Call("init", <<>>, 0, None)

KnownMines ==
    /\ calls < MaxSentenceCalls
    /\ calls' = calls + 1
    /\ last' = Call("known_mines", <<>>, 0, known_mines(heap[1]))
    /\ UNCHANGED <<height, width, board, moves_made, safes, mines, knowledge,
                   heap, random, test, pc, it1, it2, s1>>

KnownSafes ==
    /\ calls < MaxSentenceCalls
    /\ calls' = calls + 1
    /\ last' = Call("known_safes", <<>>, 0, known_safes(heap[1]))
    /\ UNCHANGED <<height, width, board, moves_made, safes, mines, knowledge,
                   heap, random, test, pc, it1, it2, s1>>

SentenceMarkMine(cell) ==
    /\ calls < MaxSentenceCalls
    /\ calls' = calls + 1
    /\ heap' = <<Sentence_mark_mine(heap[1], cell)>>
    /\ last' = Call("Sentence.mark_mine", cell, 0, None)
    /\ UNCHANGED <<height, width, board, moves_made, safes, mines, knowledge,
                   random, test, pc, it1, it2, s1>>

SentenceMarkSafe(cell) ==
    /\ calls < MaxSentenceCalls
    /\ calls' = calls + 1
    /\ heap' = <<Sentence_mark_safe(heap[1], cell)>>
    /\ last' = Call("Sentence.mark_safe", cell, 0, None)
    /\ UNCHANGED <<height, width, board, moves_made, safes, mines, knowledge,
                   random, test, pc, it1, it2, s1>>

NextSentence ==
    \/ KnownMines
    \/ KnownSafes
    \/ \E cell \in Cells : SentenceMarkMine(cell)
    \/ \E cell \in Cells : SentenceMarkSafe(cell)

SpecSentence == InitSentence /\ [][NextSentence]_vars

(***************************************************************************)
(* Properties                                                              *)
(***************************************************************************)
\* the up to 8 cells at row +-1, column +-1 of `cell`
Around(cell) ==
    {c \in Cells : /\ c # cell
                   /\ c[1] - cell[1] \in -1..1
                   /\ c[2] - cell[2] \in -1..1}

\* C1 (Soundness): with truthful observations of cells that are not mines,
\* every cell in mines is a mine of the board and no cell in safes is one.
C1_Soundness == mines \subseteq board /\ safes \cap board = {}

C1_Witness == mines # {} /\ (safes \ moves_made) # {} /\ pc = "idle"

\* C2: with truthful observations, no cell is ever in both safes and mines.
C2_Disjoint == safes \cap mines = {}

C2_Witness == Cardinality(mines) >= 2 /\ Cardinality(safes) >= 2

\* C3 (Constraint invariant): whenever add_knowledge has returned, every
\* sentence in knowledge has 0 <= count <= |cells| and holds no cell that is
\* in safes or in mines.
C3_ConstraintInvariant ==
    pc = "idle" =>
        \A k \in 1..Len(knowledge) :
            LET s == heap[knowledge[k]]
            IN /\ 0 <= s.count
               /\ s.count <= Cardinality(s.cells)
               /\ s.cells \cap (safes \cup mines) = {}

C3_Witness ==
    /\ pc = "idle"
    /\ last.op = "add_knowledge"
    /\ knowledge # <<>>
    /\ mines # {}
    /\ \E k \in 1..Len(last.before.sentences) :
          (last.before.sentences[k].cells \cap mines) # {}

\* C4: every add_knowledge call terminates, whatever the engine state, the
\* cell and the count: a call that is running eventually returns.
C4_Terminates == (pc # "idle") ~> (pc = "idle")

\* a further pass is started after a pass whose pairwise loops appended a
\* derived sentence to the list they were iterating
C4_Witness == pc = "while" /\ test # <<>> /\ Len(heap) > Len(test)

\* C5 (Zero-count observation): after a truthful add_knowledge(cell, 0) on
\* a cell that is not a mine, every in-bounds neighbour of cell is in safes
\* and cell is in safes and in moves_made.
C5_ZeroCount ==
    (last.op = "add_knowledge" /\ last.count = 0 /\ pc = "idle") =>
        /\ Around(last.cell) \subseteq safes
        /\ last.cell \in safes
        /\ last.cell \in moves_made

C5_Witness ==
    /\ last.op = "add_knowledge" /\ last.count = 0 /\ pc = "idle"
    /\ board # {}
    /\ (Around(last.cell) \ last.before.safes) # {}

\* the neighbours of the last call's cell that were in none of moves_made,
\* safes, mines when the call was made
UnresolvedBefore ==
    {c \in Around(last.cell) : /\ c \notin last.before.moves_made
                               /\ c \notin last.before.safes
                               /\ c \notin last.before.mines}

C6_Forced ==
    /\ last.op = "add_knowledge" /\ pc = "idle"
    /\ UnresolvedBefore # {}
    /\ Cardinality(UnresolvedBefore) =
         last.count - Cardinality(Around(last.cell) \cap last.before.mines)

\* C6 (Forced-mine observation): when the unresolved neighbours of the
\* observed cell are exactly as many as count minus the neighbours already
\* in mines (and there is at least one), they are all in mines when
\* add_knowledge returns.
C6_ForcedMine == C6_Forced => UnresolvedBefore \subseteq mines

C6_Witness ==
    /\ C6_Forced
    /\ (Around(last.cell) \cap last.before.mines) # {}
    /\ UnresolvedBefore \subseteq mines

\* C7: make_safe_move returns a cell in safes and not in moves_made when
\* there is one, and None exactly when there is none.
C7_SafeMove ==
    last.op = "make_safe_move" =>
        IF (safes \ moves_made) # {}
        THEN last.result # None /\ last.result[1] \in (safes \ moves_made)
        ELSE last.result = None

C7_Witness ==
    last.op = "make_safe_move" /\ last.result = None /\ safes # {}

\* C8: make_random_move returns an in-bounds cell that is in neither
\* moves_made nor mines when there is one, and None exactly when every cell
\* of the board is in moves_made or mines.
C8_RandomMove ==
    last.op = "make_random_move" =>
        IF \E c \in Cells : c \notin moves_made /\ c \notin mines
        THEN /\ last.result # None
             /\ 0 <= last.result[1][1] /\ last.result[1][1] < height
             /\ 0 <= last.result[1][2] /\ last.result[1][2] < width
             /\ last.result[1] \notin moves_made
             /\ last.result[1] \notin mines
        ELSE last.result = None

C8_Witness ==
    /\ last.op = "make_random_move"
    /\ last.result # None
    /\ last.result[1] \notin safes
    /\ mines # {}

\* C9: make_safe_move and make_random_move leave moves_made, safes, mines
\* and every sentence of knowledge as they were.
C9_QueriesPure ==
    last.op \in {"make_safe_move", "make_random_move"} =>
        Snapshot = last.before

C9_Witness ==
    /\ last.op = "make_random_move"
    /\ last.result # None
    /\ Len(knowledge) >= 2
    /\ random # {}

\* C10: mark_mine of a cell that is in safes, or mark_safe of a cell that is
\* in mines, is rejected and does not leave the cell in both sets.
C10_ContradictionRejected ==
    (\/ (last.op = "mark_mine" /\ last.cell \in last.before.safes)
     \/ (last.op = "mark_safe" /\ last.cell \in last.before.mines))
    => ~(last.cell \in safes /\ last.cell \in mines)

\* what the caller can observe of an engine record
SnapshotOf(e) ==
    [moves_made |-> e.moves_made, safes |-> e.safes, mines |-> e.mines,
     sentences |-> [k \in 1..Len(e.knowledge) |-> e.heap[e.knowledge[k]]]]

\* C11 (Idempotence of marking): right after mark_mine(cell), a second
\* mark_mine(cell) leaves moves_made, safes, mines and every sentence's cells
\* and count as they are (no count is decremented again); likewise for
\* mark_safe(cell).
C11_Idempotent ==
    /\ (last.op = "mark_mine" /\ pc = "idle") =>
           SnapshotOf(mark_mine(Cur, last.cell)) = Snapshot
    /\ (last.op = "mark_safe" /\ pc = "idle") =>
           SnapshotOf(mark_safe(Cur, last.cell)) = Snapshot

C11_Witness ==
    /\ last.op = "mark_mine"
    /\ pc = "idle"
    /\ \E k \in DOMAIN last.before.sentences :
          /\ last.cell \in last.before.sentences[k].cells
          /\ Sentences[k].count = last.before.sentences[k].count - 1
    /\ \E k \in DOMAIN Sentences : Sentences[k].cells # {}

\* C12 (Monotonic knowledge): no call of add_knowledge, mark_mine, mark_safe,
\* make_safe_move or make_random_move removes a cell from moves_made, safes
\* or mines.
C12_Monotonic ==
    /\ last.before.moves_made \subseteq moves_made
    /\ last.before.safes \subseteq safes
    /\ last.before.mines \subseteq mines

C12_Witness ==
    /\ last.op = "mark_mine"
    /\ last.cell \in last.before.safes
    /\ last.before.mines # {}
    /\ last.before.moves_made # {}

\* C13: Sentence.known_safes() returns the sentence's cell set whenever count
\* is 0, an empty set included when the cell set is empty, returns nothing
\* when count is not 0, and does not modify the sentence.
C13_KnownSafes ==
    last.op = "known_safes" =>
        /\ last.before.sentences[1].count = 0 =>
               last.result = Some(last.before.sentences[1].cells)
        /\ last.before.sentences[1].count # 0 => last.result = None
        /\ Sentences = last.before.sentences

\* the sentence is true of the mine layout
TrueOf(s, layout) == Cardinality(s.cells \cap layout) = s.count

\* C19: a sentence true of the mine layout is still true of it after
\* Sentence.mark_mine(cell) for a mine cell, and after Sentence.mark_safe(cell)
\* for a cell that is not a mine; when cell is not in the sentence both leave
\* cells and count unchanged.
C19_ShrinkPreservesTruth ==
    /\ (/\ last.op = "Sentence.mark_mine"
        /\ TrueOf(last.before.sentences[1], board)
        /\ last.cell \in board) => TrueOf(Sentences[1], board)
    /\ (/\ last.op = "Sentence.mark_safe"
        /\ TrueOf(last.before.sentences[1], board)
        /\ last.cell \notin board) => TrueOf(Sentences[1], board)
    /\ (/\ last.op \in {"Sentence.mark_mine", "Sentence.mark_safe"}
        /\ last.cell \notin last.before.sentences[1].cells)
           => Sentences[1] = last.before.sentences[1]

C19_Witness ==
    /\ last.op = "Sentence.mark_safe"
    /\ TrueOf(last.before.sentences[1], board)
    /\ last.cell \notin board
    /\ last.cell \in last.before.sentences[1].cells
    /\ Sentences[1].count >= 1
    /\ Cardinality(Sentences[1].cells) >= 2

\* the engine that holds what a snapshot shows, no call in progress
EngineOf(snap) ==
    [moves_made |-> snap.moves_made, safes |-> snap.safes,
     mines |-> snap.mines,
     knowledge |-> [k \in DOMAIN snap.sentences |-> k],
     heap |-> snap.sentences, test |-> <<>>, pc |-> "idle",
     it1 |-> 0, it2 |-> 0, s1 |-> 0]

\* from the start of a pass on: the pass after which the loop is left has
\* changed no sentence, and neither safes nor mines
RECURSIVE ExitsUnchanged(_)
ExitsUnchanged(e) ==
    LET p == PassFrom(Step(e))
    IN CASE p.pc = "idle" -> SnapshotOf(p) = SnapshotOf(e)
         [] p.pc = "ValueError" -> TRUE
         [] OTHER -> ExitsUnchanged(p)

\* C14 (Declared fixed point is a real fixed point): when add_knowledge has
\* returned, one more propagation pass changes nothing (knowledge, safes and
\* mines stay as they are); and the pass after which the loop was left had
\* itself shrunk, appended or removed no sentence and marked no cell.
C14_FixedPoint ==
    (last.op = "add_knowledge" /\ pc = "idle") =>
        /\ SnapshotOf(OnePass(Cur)) = Snapshot
        /\ ExitsUnchanged(add_knowledge_begin(EngineOf(last.before),
                                              last.cell, last.count))

C14_Witness ==
    /\ last.op = "add_knowledge"
    /\ pc = "idle"
    /\ Len(last.before.sentences) >= 2
    /\ Cardinality(mines) > Cardinality(last.before.mines)
    /\ Cardinality(safes) > Cardinality(last.before.safes) + 1

\* C15 (Certainty extraction): when add_knowledge has returned, knowledge
\* holds no sentence with an empty cell set, none with count 0 and none with
\* count equal to its number of cells: such sentences had their cells marked
\* safe, or as mines, and were removed.
C15_CertaintyExtracted ==
    (last.op = "add_knowledge" /\ pc = "idle") =>
        \A k \in DOMAIN Sentences :
            /\ Sentences[k].cells # {}
            /\ Sentences[k].count # 0
            /\ Sentences[k].count # Cardinality(Sentences[k].cells)

C15_Witness ==
    /\ last.op = "add_knowledge"
    /\ pc = "idle"
    /\ \E k \in DOMAIN last.before.sentences :
          /\ last.before.sentences[k].cells \subseteq safes \cup mines
          /\ (last.before.sentences[k].cells \cap mines)
                 \ last.before.mines # {}
          /\ (last.before.sentences[k].cells \cap safes)
                 \ (last.before.safes \cup {last.cell}) # {}

\* the sentences of knowledge when the propagation of the last add_knowledge
\* call started (after 207-236: the cell marked safe, the new sentence added)
AtPropagationStart ==
    SnapshotOf(add_knowledge_begin(EngineOf(last.before),
                                   last.cell, last.count)).sentences

\* C16 (Subset inference): for sentences A and B of knowledge, both true of
\* the board, with A.cells a strict subset of B.cells when propagation
\* starts: if B.count - A.count = |B.cells - A.cells|, every cell of
\* B.cells - A.cells is in mines when add_knowledge returns, and if
\* B.count - A.count = 0 every such cell is in safes, whatever other
\* sentences are present and in whatever order.
C16_SubsetInference ==
    (last.op = "add_knowledge" /\ pc = "idle") =>
        \A i, j \in DOMAIN AtPropagationStart :
            LET A == AtPropagationStart[i]
                B == AtPropagationStart[j]
                D == B.cells \ A.cells
            IN (/\ A.cells \subseteq B.cells
                /\ A.cells # B.cells
                /\ TrueOf(A, board)
                /\ TrueOf(B, board))
               => /\ (B.count - A.count = Cardinality(D)) => D \subseteq mines
                  /\ (B.count - A.count = 0) => D \subseteq safes

\* the engine with the sentences of knowledge stored in the order p
Reordered(e, p) ==
    [e EXCEPT !.knowledge = [k \in DOMAIN e.knowledge |-> e.knowledge[p[k]]]]

\* C17 (Order independence): for two engine states that differ only in the
\* order of the sentences in knowledge, the same add_knowledge(cell, count)
\* call ends with the same safes and the same mines in both.
C17_OrderIndependent ==
    (pc = "idle" /\ calls < MaxBigCalls) =>
        \A cell \in Cells \ board :
            \A p \in Permutations(DOMAIN knowledge) :
                LET r1 == add_knowledge(Cur, cell, nearby_mines(cell))
                    r2 == add_knowledge(Reordered(Cur, p), cell,
                                        nearby_mines(cell))
                IN r1.safes = r2.safes /\ r1.mines = r2.mines

\* C18 (Cascade on mark): mark_mine(cell) adds cell to mines, removes it
\* from every sentence of knowledge that contains it with the count one
\* less, and leaves the other sentences, safes and moves_made unchanged;
\* mark_safe(cell) adds cell to safes, removes it from every sentence that
\* contains it with the count unchanged, and leaves the other sentences,
\* mines and moves_made unchanged; afterwards no sentence contains cell.
C18_Cascade ==
    LET old == last.before.sentences
        dec == IF last.op = "mark_mine" THEN 1 ELSE 0
    IN last.op \in {"mark_mine", "mark_safe"} =>
        /\ moves_made = last.before.moves_made
        /\ mines = IF last.op = "mark_mine"
                   THEN last.before.mines \cup {last.cell}
                   ELSE last.before.mines
        /\ safes = IF last.op = "mark_safe"
                   THEN last.before.safes \cup {last.cell}
                   ELSE last.before.safes
        /\ DOMAIN Sentences = DOMAIN old
        /\ \A k \in DOMAIN old :
              /\ last.cell \notin Sentences[k].cells
              /\ IF last.cell \in old[k].cells
                 THEN /\ Sentences[k].cells = old[k].cells \ {last.cell}
                      /\ Sentences[k].count = old[k].count - dec
                 ELSE Sentences[k] = old[k]

C18_Witness ==
    /\ last.op = "mark_safe"
    /\ Len(knowledge) >= 2
    /\ \A k \in DOMAIN last.before.sentences :
          last.cell \in last.before.sentences[k].cells
    /\ \A k \in DOMAIN Sentences : Sentences[k].cells # {}

\* the mine layout agrees with what a snapshot of the engine says
Consistent(snap, layout) ==
    /\ snap.safes \cap layout = {}
    /\ snap.mines \subseteq layout
    /\ \A k \in DOMAIN snap.sentences : TrueOf(snap.sentences[k], layout)

\* C20 (Propagation neither loses nor invents information): with truthful
\* observations, the mine layouts consistent with the engine after
\* add_knowledge(cell, count) has returned are exactly the layouts consistent
\* with the engine before the call in which cell is not a mine and has
\* exactly count mines among its neighbours.
C20_InformationPreserved ==
    (last.op = "add_knowledge" /\ pc = "idle") =>
        \A layout \in SUBSET Cells :
            Consistent(Snapshot, layout)
            <=> /\ Consistent(last.before, layout)
                /\ last.cell \notin layout
                /\ Cardinality(Around(last.cell) \cap layout) = last.count

C20_Witness ==
    /\ last.op = "add_knowledge"
    /\ pc = "idle"
    /\ Len(knowledge) >= 2
    /\ /\ mines = last.before.mines
       /\ safes = last.before.safes \cup {last.cell}
    /\ \E k \in DOMAIN last.before.sentences, j \in DOMAIN Sentences :
          /\ Sentences[j].cells \subseteq last.before.sentences[k].cells
          /\ Sentences[j].count < last.before.sentences[k].count
    /\ \E layout \in SUBSET Cells :
          Consistent(Snapshot, layout) /\ layout # board

=============================================================================
